---- MODULE Spec2Model ----
(***************************************************************************)
(* Verification model of chinchilib.                                       *)
(*                                                                         *)
(*   - src/src/lib.rs     : WinitHandler (tick scheduler) and WinFbx (key  *)
(*                          tracker, redraw), driving a GfxApp.            *)
(*   - src/src/raycast.rs : World (grid map, player pose, wall test,       *)
(*                          movement, distance march).                     *)
(*                                                                         *)
(* Time is an integer number of clock units.  Continuous coordinates are   *)
(* fixed-point integers, Scale units per grid cell; angles are integers in *)
(* half-degrees; distances handed to move_forward are in hundredths of a   *)
(* cell.                                                                   *)
(***************************************************************************)
EXTENDS Integers, Sequences, FiniteSets, TLC

(***************************************************************************)
(* Bounds of the model.                                                    *)
(***************************************************************************)
\* the clock runs from 0 to MaxTime
MaxTime == 4
\* tick periods range over 1 .. MaxPeriod clock units
MaxPeriod == 2

(***************************************************************************)
(* Keys.  MyKeys is the recognized set (lib.rs 13-24), reduced here to one *)
(* of its ten keys, which process_kbd_input treats alike; Escape and Space *)
(* are handled by process_kbd_input itself; "Other" stands for every       *)
(* unrecognized key.                                                       *)
(***************************************************************************)
MyKeys == {"Up"}

LogicalKeys == MyKeys \cup {"Escape", "Space", "Other"}

ElementState == {"Pressed", "Released"}

DoneStatus == {"Exit", "Remain", "NotDone"}

VARIABLES
  \* ---- WinitHandler (lib.rs 49-61) and the winit event loop
  loop,              \* "new": built, not run; "running"; "exited"
  last_frame,        \* WinitHandler.last_frame
  tick,              \* WinitHandler.tick, the tick period
  always_tick,       \* WinitHandler.always_tick
  now,               \* the monotonic clock, std::time::Instant::now()
  control_flow,      \* the event loop's ControlFlow
  exiting,           \* event_loop.exit() has been called
  redraw_requested,  \* window.request_redraw() pending
  wake,              \* events were dispatched: about_to_wait is due
  \* ---- WinFbx (lib.rs 209-219)
  pressed_keys,
  released_keys,
  needs_render,
  pause,
  \* ---- the GfxApp behind the trait object
  app_done,          \* what app.done() returns
  \* ---- observation of the last step (history, not program state)
  app_call,          \* the GfxApp method the last step called, with its keys
  ticked,            \* the last step ran WinFbx::on_tick
  down,              \* recognized keys whose most recent non-repeat event is a press
  last_input,        \* "tick": a tick ran and no keyboard event came since;
                     \* "ticks": two ticks or more did; otherwise the latest
                     \* keyboard event: "repeat" (auto-repeat) or "event"
                     \* (any other, or nothing yet)
  resize_pending,    \* "yes": a resize has set needs_render and no redraw
                     \* since has called draw and presented the frame; "no"
                     \* otherwise; "off" where resizes are not followed
  \* ---- World (raycast.rs 5-10)
  map,               \* Array2D<u8>: [rows, cols, cells]
  player_pos,        \* <<x, y>>, fixed point
  player_heading,    \* half-degrees
  player_fov,        \* half-degrees
  world_op,          \* outcome of the last World operation (history)
  \* ---- one run of distance_to_wall (raycast.rs 57-65)
  ray_heading,       \* its argument
  distance,          \* hundredths of a cell
  coords,            \* the marched point
  march_pc,          \* "idle", "loop", "returned", "panicked"
  \* ---- one call of is_wall
  probe,             \* its argument
  iw_result,         \* "none", "true", "false", "panic"
  \* ---- one call of generate_ray_angles (raycast.rs 107-113)
  ray_quantity,      \* its arguments
  fov_arg,
  ray_angles,        \* [status, angles]: what it yields
  \* ---- the pixel buffer and one call of draw_centered_col (main.rs 300-340)
  frame,             \* pixel index -> colour
  width,
  height,
  col_x,             \* the arguments x and col_height
  col_height,
  draw_status,       \* "none", "done", "panic"
  \* ---- the argument of WinitHandler::new (lib.rs 80-92)
  tick_per_second,
  \* ---- the columns of one redraw of main.rs (main.rs 255-277)
  projection         \* [status, columns]: per column, distance and height

sched_vars == <<loop, last_frame, tick, always_tick, now, control_flow,
                exiting, redraw_requested, wake, pressed_keys, released_keys,
                needs_render, pause, app_done, app_call, ticked, down,
                last_input, resize_pending>>

world_vars == <<map, player_pos, player_heading, player_fov, world_op>>

march_vars == <<ray_heading, distance, coords, march_pc>>

iw_vars == <<probe, iw_result>>

gen_vars == <<ray_quantity, fov_arg, ray_angles>>

draw_vars == <<frame, width, height, col_x, col_height, draw_status>>

hz_vars == <<tick_per_second>>

proj_vars == <<projection>>

vars == <<sched_vars, world_vars, march_vars, iw_vars, gen_vars, draw_vars,
          hz_vars, proj_vars>>

Wait == [kind |-> "Wait", at |-> 0]

WaitUntil(t) == [kind |-> "WaitUntil", at |-> t]

NoCall == [method |-> "none", keys |-> {}]

\* Instant::duration_since saturates to zero when the argument is later
duration_since(later, earlier) == IF later >= earlier THEN later - earlier ELSE 0

(***************************************************************************)
(* raycast.rs in fixed point.                                              *)
(*   coordinates : integers, Scale units per grid cell                     *)
(*   angles      : integers, half-degrees (FRAC_PI_8 = 45, PI = 360)       *)
(*   distances   : integers, hundredths of a cell (0.2 = 20, 0.01 = 1)     *)
(*   cos, sin    : thousandths, by Bhaskara's rational approximation,      *)
(*                 exact at the multiples of a right angle                 *)
(***************************************************************************)
\* units per grid cell
Scale == 20
\* pan_left / pan_right keep |player_heading| within MaxPan pan steps
MaxPan == 4
\* the accumulator of distance_to_wall no longer grows once it holds
\* MaxDistance: adding 0.01 to an f32 is absorbed from 2^18 on, scaled down
MaxDistance == 600

FRAC_PI_8 == 45

FRAC_PI_2 == 180

PI == 360

MoveStep == 20

MarchStep == 1

RoundDiv(n, d) == IF n >= 0 THEN (2 * n + d) \div (2 * d)
                            ELSE 0 - ((2 * (0 - n) + d) \div (2 * d))

\* f32::sin, thousandths
sin1000(a) ==
  LET b == a % (2 * PI)
      h == IF b <= PI THEN b ELSE b - PI
      v == RoundDiv(4000 * h * (PI - h), 162000 - h * (PI - h))
  IN  IF b <= PI THEN v ELSE 0 - v

\* f32::cos, thousandths
cos1000(a) == sin1000(a + FRAC_PI_2)

\* degs_to_rads
degs_to_rads(degs) == 2 * degs

\* `as usize` on an f32: truncates toward zero and saturates, so every
\* negative value (and NaN) becomes 0
as_usize(v) == IF v < 0 THEN 0 ELSE v \div Scale

Cell(n) == n * Scale

\* Array2D::filled_with(element, num_rows, num_columns)
filled_with(element, num_rows, num_columns) ==
  [rows |-> num_rows, cols |-> num_columns,
   cells |-> [rc \in (0..(num_rows - 1)) \X (0..(num_columns - 1)) |-> element]]

\* Array2D::row_len: the number of elements of a row, i.e. of columns
row_len(m) == m.cols

\* Array2D::column_len: the number of elements of a column, i.e. of rows
column_len(m) == m.rows

\* Index<(usize, usize)> for Array2D: m[(row, column)] panics out of bounds
IndexPanics(m, rc) == rc[1] >= m.rows \/ rc[2] >= m.cols

\* World::default: a 5 x 5 grid with a closed wall border
DefaultMap ==
  LET blank == filled_with(" ", 5, 5)
  IN  [blank EXCEPT !.cells =
         [rc \in DOMAIN blank.cells |->
            IF rc[1] = 0 \/ rc[1] = 4 \/ rc[2] = 0 \/ rc[2] = 4
              THEN "X" ELSE " "]]

\* World::is_wall as an outcome: "true", "false", or "panic" when the
\* index expression map[coords] is evaluated out of bounds
is_wall_outcome(m, c) ==
  LET cc == <<as_usize(c[1]), as_usize(c[2])>>
  IN  IF cc[1] >= row_len(m) \/ cc[2] >= column_len(m)
        THEN "true"
        ELSE IF IndexPanics(m, cc) THEN "panic"
             ELSE IF m.cells[cc] = "X" THEN "true" ELSE "false"

is_wall(m, c) == is_wall_outcome(m, c) = "true"

\* a slip: sine and cosine exchanged
move_forward_swapped(pos, direction, dist) ==
  <<pos[1] + ((sin1000(direction) * dist * Scale) \div 100000),
    pos[2] + ((cos1000(direction) * dist * Scale) \div 100000)>>

\* move_forward(pos, direction, distance); the part of a coordinate below
\* one unit is dropped downwards, so the cell of the result (its floor) is
\* the cell of the exact sum
move_forward(pos, direction, dist) ==
  <<pos[1] + ((cos1000(direction) * dist * Scale) \div 100000),
    pos[2] + ((sin1000(direction) * dist * Scale) \div 100000)>>

Heading == {"Forward", "Backward", "Right", "Left"}

\* the match of move_player
HeadingOffset(heading) ==
  CASE heading = "Forward"  -> 0
    [] heading = "Backward" -> PI
    [] heading = "Left"     -> 0 - FRAC_PI_2
    [] heading = "Right"    -> FRAC_PI_2

\* World::default()
WorldDefault ==
  /\ map = DefaultMap
  /\ player_pos = <<Cell(2), Cell(2)>>
  /\ player_heading = 0
  /\ player_fov = degs_to_rads(70)
  /\ world_op = [call |-> "default", panicked |-> FALSE]

\* the components at rest, for the specifications that do not run them
WorldIdle ==
  /\ map = filled_with(" ", 0, 0)
  /\ player_pos = <<0, 0>>
  /\ player_heading = 0
  /\ player_fov = 0
  /\ world_op = [call |-> "idle", panicked |-> FALSE]

MarchIdle ==
  /\ ray_heading = 0
  /\ distance = 0
  /\ coords = <<0, 0>>
  /\ march_pc = "idle"

IsWallIdle ==
  /\ probe = <<0, 0>>
  /\ iw_result = "none"

NoAngles == [status |-> "none", angles |-> <<>>]

GenIdle ==
  /\ ray_quantity = 0
  /\ fov_arg = 0
  /\ ray_angles = NoAngles

DrawIdle ==
  /\ frame = <<>>
  /\ width = 0
  /\ height = 0
  /\ col_x = 0
  /\ col_height = 0
  /\ draw_status = "none"

NoProjection == [status |-> "none", columns |-> <<>>]

\* tick_per_second and projection at rest
RestIdle ==
  /\ tick_per_second = 0
  /\ projection = NoProjection

(***************************************************************************)
(* WinitHandler::new: last_frame is the construction time, always_tick is  *)
(* false, no window yet.  The app behind the trait object is arbitrary.    *)
(***************************************************************************)
Init ==
  /\ loop = "new"
  /\ now = 0
  /\ last_frame = 0
  /\ tick \in 1..MaxPeriod
  /\ always_tick = FALSE
  /\ control_flow = Wait
  /\ exiting = FALSE
  /\ redraw_requested = FALSE
  /\ wake = FALSE
  /\ pressed_keys = {}
  /\ released_keys = {}
  /\ needs_render = TRUE
  /\ pause = FALSE
  /\ app_done \in DoneStatus
  /\ app_call = NoCall
  /\ ticked = FALSE
  /\ down = {}
  /\ last_input = "event"
  /\ resize_pending = "off"
  /\ WorldIdle
  /\ MarchIdle
  /\ IsWallIdle
  /\ GenIdle
  /\ RestIdle
  /\ DrawIdle

ObserveResize(call, t, pending) ==
  /\ app_call' = call
  /\ ticked' = t
  /\ resize_pending' = IF resize_pending = "off" THEN "off" ELSE pending
  /\ last_input' = IF t THEN (IF last_input \in {"tick", "ticks"}
                                 THEN "ticks" ELSE "tick")
                        ELSE last_input
  /\ UNCHANGED <<world_vars, march_vars, iw_vars, gen_vars, draw_vars,
                 hz_vars, proj_vars>>

\* what a step that neither resizes nor draws leaves in the history variables
Observe(call, t) == ObserveResize(call, t, resize_pending)

\* what a keyboard event leaves in the history variables
ObserveKey(repeat) ==
  /\ app_call' = NoCall
  /\ ticked' = FALSE
  /\ resize_pending' = resize_pending
  /\ last_input' = IF repeat THEN "repeat" ELSE "event"
  /\ UNCHANGED <<world_vars, march_vars, iw_vars, gen_vars, draw_vars,
                 hz_vars, proj_vars>>

SetAlwaysTick(val) ==
  /\ loop = "new"
  /\ always_tick' = val
  /\ Observe(NoCall, FALSE)
  /\ UNCHANGED <<loop, last_frame, tick, now, control_flow, exiting,
                 redraw_requested, wake, pressed_keys, released_keys,
                 needs_render, pause, app_done, down>>

\* run() sets ControlFlow::Wait and starts the loop, which calls resumed():
\* WinFbx::new gives empty key sets and needs_render = true.
Run ==
  /\ loop = "new"
  /\ loop' = "running"
  /\ control_flow' = Wait
  /\ pressed_keys' = {}
  /\ released_keys' = {}
  /\ needs_render' = TRUE
  /\ pause' = FALSE
  /\ wake' = TRUE
  /\ Observe(NoCall, FALSE)
  /\ UNCHANGED <<last_frame, tick, always_tick, now, exiting,
                 redraw_requested, app_done, down>>

\* the clock advances on its own
AdvanceTime ==
  /\ now < MaxTime
  /\ now' = now + 1
  /\ Observe(NoCall, FALSE)
  /\ UNCHANGED <<loop, last_frame, tick, always_tick, control_flow, exiting,
                 redraw_requested, wake, pressed_keys, released_keys,
                 needs_render, pause, app_done, down>>

\* a slip: auto-repeat events are processed like any other
KeyboardInput_handles_repeat(key, state, repeat) ==
  /\ loop = "running"
  /\ wake' = TRUE
  /\ pressed_keys' = IF key \in MyKeys /\ state = "Pressed"
                       THEN pressed_keys \cup {key} ELSE pressed_keys
  /\ released_keys' = IF key \in MyKeys /\ state = "Released"
                        THEN released_keys \cup {key} ELSE released_keys
  /\ exiting' = (exiting \/ (state = "Pressed" /\ key = "Escape"))
  /\ pause' = IF state = "Pressed" /\ key = "Space" THEN ~pause ELSE pause
  /\ down' = IF key \in MyKeys /\ ~repeat
               THEN IF state = "Pressed" THEN down \cup {key}
                                         ELSE down \ {key}
               ELSE down
  /\ ObserveKey(repeat)
  /\ UNCHANGED <<loop, last_frame, tick, always_tick, now, control_flow,
                 redraw_requested, needs_render, app_done>>

\* WindowEvent::KeyboardInput: process_kbd_input runs only when
\* event.repeat == false; a repeat falls through to `_ => {}`.
KeyboardInput(key, state, repeat) ==
  /\ loop = "running"
  /\ wake' = TRUE
  /\ IF repeat
       THEN UNCHANGED <<pressed_keys, released_keys, exiting, pause, down>>
       ELSE /\ pressed_keys' = IF key \in MyKeys /\ state = "Pressed"
                                 THEN pressed_keys \cup {key} ELSE pressed_keys
            /\ released_keys' = IF key \in MyKeys /\ state = "Released"
                                  THEN released_keys \cup {key} ELSE released_keys
            /\ exiting' = (exiting \/ (state = "Pressed" /\ key = "Escape"))
            /\ pause' = IF state = "Pressed" /\ key = "Space" THEN ~pause ELSE pause
            /\ down' = IF key \in MyKeys
                         THEN IF state = "Pressed" THEN down \cup {key}
                                                   ELSE down \ {key}
                         ELSE down
  /\ ObserveKey(repeat)
  /\ UNCHANGED <<loop, last_frame, tick, always_tick, now, control_flow,
                 redraw_requested, needs_render, app_done>>

\* WindowEvent::Resized -> process_resize
Resized ==
  /\ loop = "running"
  /\ wake' = TRUE
  /\ redraw_requested' = TRUE
  /\ needs_render' = TRUE
  /\ ObserveResize(NoCall, FALSE, "yes")
  /\ UNCHANGED <<loop, last_frame, tick, always_tick, now, control_flow,
                 exiting, pressed_keys, released_keys, pause, app_done,
                 down>>

\* a slip: needs_render is cleared whether or not the frame was presented
RedrawRequested_clears_on_error(render_ok) ==
  /\ loop = "running"
  /\ wake' = TRUE
  /\ redraw_requested' = FALSE
  /\ IF needs_render
       THEN ObserveResize([method |-> "draw", keys |-> {}], FALSE,
                          IF render_ok THEN "no" ELSE resize_pending)
       ELSE Observe(NoCall, FALSE)
  /\ needs_render' = FALSE
  /\ UNCHANGED <<loop, last_frame, tick, always_tick, now, control_flow,
                 exiting, pressed_keys, released_keys, pause, app_done,
                 down>>

\* WindowEvent::RedrawRequested -> on_redraw.  The host delivers it after a
\* request_redraw() and may also deliver it on its own (expose).
\* render_ok is the outcome of pixels.render().
RedrawRequested(render_ok) ==
  /\ loop = "running"
  /\ wake' = TRUE
  /\ redraw_requested' = FALSE
  /\ IF needs_render
       THEN /\ ObserveResize([method |-> "draw", keys |-> {}], FALSE,
                          IF render_ok THEN "no" ELSE resize_pending)
            /\ needs_render' = IF render_ok THEN FALSE ELSE needs_render
       ELSE /\ Observe(NoCall, FALSE)
            /\ needs_render' = FALSE
  /\ UNCHANGED <<loop, last_frame, tick, always_tick, now, control_flow,
                 exiting, pressed_keys, released_keys, pause, app_done,
                 down>>

CloseRequested ==
  /\ loop = "running"
  /\ wake' = TRUE
  /\ exiting' = TRUE
  /\ Observe(NoCall, FALSE)
  /\ UNCHANGED <<loop, last_frame, tick, always_tick, now, control_flow,
                 redraw_requested, pressed_keys, released_keys, needs_render,
                 pause, app_done, down>>

\* CursorMoved, MouseInput and every other window event: no scheduler state
OtherWindowEvent ==
  /\ loop = "running"
  /\ wake' = TRUE
  /\ Observe(NoCall, FALSE)
  /\ UNCHANGED <<loop, last_frame, tick, always_tick, now, control_flow,
                 exiting, redraw_requested, pressed_keys, released_keys,
                 needs_render, pause, app_done, down>>

\* a slip: the released keys are removed before the app sees the set
on_tick_drains_first(ret, next_done) ==
  /\ IF app_done = "NotDone"
       THEN /\ needs_render' = ret
            /\ app_done' = next_done
            /\ Observe([method |-> "on_tick",
                        keys |-> {k \in pressed_keys : k \notin released_keys}],
                       TRUE)
       ELSE /\ UNCHANGED <<needs_render, app_done>>
            /\ Observe(NoCall, TRUE)
  /\ pressed_keys' = {k \in pressed_keys : k \notin released_keys}
  /\ released_keys' = {}

\* a slip: released_keys is not cleared
on_tick_keeps_released(ret, next_done) ==
  /\ IF app_done = "NotDone"
       THEN /\ needs_render' = ret
            /\ app_done' = next_done
            /\ Observe([method |-> "on_tick", keys |-> pressed_keys], TRUE)
       ELSE /\ UNCHANGED <<needs_render, app_done>>
            /\ Observe(NoCall, TRUE)
  /\ pressed_keys' = {k \in pressed_keys : k \notin released_keys}
  /\ UNCHANGED released_keys

\* a slip: the two sets are left as they are
on_tick_no_drain(ret, next_done) ==
  /\ IF app_done = "NotDone"
       THEN /\ needs_render' = ret
            /\ app_done' = next_done
            /\ Observe([method |-> "on_tick", keys |-> pressed_keys], TRUE)
       ELSE /\ UNCHANGED <<needs_render, app_done>>
            /\ Observe(NoCall, TRUE)
  /\ UNCHANGED <<pressed_keys, released_keys>>

\* a slip: retain keeps the released keys instead of dropping them
on_tick_retains_released(ret, next_done) ==
  /\ IF app_done = "NotDone"
       THEN /\ needs_render' = ret
            /\ app_done' = next_done
            /\ Observe([method |-> "on_tick", keys |-> pressed_keys], TRUE)
       ELSE /\ UNCHANGED <<needs_render, app_done>>
            /\ Observe(NoCall, TRUE)
  /\ pressed_keys' = {k \in pressed_keys : k \in released_keys}
  /\ released_keys' = {}

\* WinFbx::on_tick.  ret and next_done are what the app's on_tick returns
\* and what its done() answers afterwards.
on_tick(ret, next_done) ==
  /\ IF app_done = "NotDone"
       THEN /\ needs_render' = ret
            /\ app_done' = next_done
            /\ Observe([method |-> "on_tick", keys |-> pressed_keys], TRUE)
       ELSE /\ UNCHANGED <<needs_render, app_done>>
            /\ Observe(NoCall, TRUE)
  /\ pressed_keys' = {k \in pressed_keys : k \notin released_keys}
  /\ released_keys' = {}

\* a slip: any elapsed time at all triggers the tick
tick_is_due_early(duration_from_last_tick) == duration_from_last_tick > 0

\* the condition of about_to_wait's if: duration_from_last_tick >= self.tick
tick_is_due(duration_from_last_tick) == duration_from_last_tick >= tick

\* a slip: always_tick is not consulted
idle_control_flow_keys_only(duration_from_last_tick) ==
  IF pressed_keys # {}
    THEN WaitUntil(now + (tick - duration_from_last_tick))
    ELSE Wait

\* the else branch of about_to_wait: the control flow it sets
idle_control_flow(duration_from_last_tick) ==
  IF always_tick \/ pressed_keys # {}
    THEN WaitUntil(now + (tick - duration_from_last_tick))
    ELSE Wait

\* a slip: no return after event_loop.exit()
AboutToWait_exit_falls_through(ret, next_done) ==
  /\ loop = "running"
  /\ wake' = FALSE
  /\ exiting' = (exiting \/ app_done = "Exit")
  /\ LET duration_from_last_tick == duration_since(now, last_frame) IN
       IF tick_is_due(duration_from_last_tick)
         THEN /\ last_frame' = now
              /\ on_tick(ret, next_done)
              /\ redraw_requested' = TRUE
              /\ UNCHANGED control_flow
         ELSE /\ control_flow' = idle_control_flow(duration_from_last_tick)
              /\ Observe(NoCall, FALSE)
              /\ UNCHANGED <<last_frame, redraw_requested, pressed_keys,
                             released_keys, needs_render, app_done>>
  /\ UNCHANGED <<loop, tick, always_tick, now, pause, down>>

\* WinitHandler::about_to_wait
AboutToWait(ret, next_done) ==
  /\ loop = "running"
  /\ wake' = FALSE
  /\ IF app_done = "Exit"
       THEN /\ exiting' = TRUE
            /\ Observe(NoCall, FALSE)
            /\ UNCHANGED <<last_frame, control_flow, redraw_requested,
                           pressed_keys, released_keys, needs_render, app_done>>
       ELSE LET duration_from_last_tick == duration_since(now, last_frame) IN
            IF tick_is_due(duration_from_last_tick)
              THEN /\ last_frame' = now
                   /\ on_tick(ret, next_done)
                   /\ redraw_requested' = TRUE
                   /\ UNCHANGED <<control_flow, exiting>>
              ELSE /\ control_flow' = idle_control_flow(duration_from_last_tick)
                   /\ Observe(NoCall, FALSE)
                   /\ UNCHANGED <<last_frame, exiting, redraw_requested,
                                  pressed_keys, released_keys, needs_render,
                                  app_done>>
  /\ UNCHANGED <<loop, tick, always_tick, now, pause, down>>

\* the loop ends once exit() has been called
LoopExit ==
  /\ loop = "running"
  /\ exiting
  /\ loop' = "exited"
  /\ Observe(NoCall, FALSE)
  /\ UNCHANGED <<last_frame, tick, always_tick, now, control_flow, exiting,
                 redraw_requested, wake, pressed_keys, released_keys,
                 needs_render, pause, app_done, down>>

Next ==
  \/ \E val \in BOOLEAN : SetAlwaysTick(val)
  \/ Run
  \/ AdvanceTime
  \/ \E key \in LogicalKeys, state \in ElementState, repeat \in BOOLEAN :
       KeyboardInput(key, state, repeat)
  \/ Resized
  \/ \E render_ok \in BOOLEAN : RedrawRequested(render_ok)
  \/ CloseRequested
  \/ OtherWindowEvent
  \/ \E ret \in BOOLEAN, next_done \in DoneStatus : AboutToWait(ret, next_done)
  \/ LoopExit

Spec == Init /\ [][Next]_vars

\* the same event loop, with the resizes followed in resize_pending
ResizeInit ==
  /\ loop = "new"
  /\ now = 0
  /\ last_frame = 0
  /\ tick \in 1..MaxPeriod
  /\ always_tick = FALSE
  /\ control_flow = Wait
  /\ exiting = FALSE
  /\ redraw_requested = FALSE
  /\ wake = FALSE
  /\ pressed_keys = {}
  /\ released_keys = {}
  /\ needs_render = TRUE
  /\ pause = FALSE
  /\ app_done \in DoneStatus
  /\ app_call = NoCall
  /\ ticked = FALSE
  /\ down = {}
  /\ last_input = "event"
  /\ resize_pending = "no"
  /\ WorldIdle
  /\ MarchIdle
  /\ IsWallIdle
  /\ GenIdle
  /\ RestIdle
  /\ DrawIdle

ResizeSpec == ResizeInit /\ [][Next]_vars

(***************************************************************************)
(* World: the player in World::default(), moved and turned by any sequence *)
(* of move_player, pan_left and pan_right calls.                           *)
(***************************************************************************)
SchedIdle ==
  /\ loop = "new"
  /\ now = 0
  /\ last_frame = 0
  /\ tick = 1
  /\ always_tick = FALSE
  /\ control_flow = Wait
  /\ exiting = FALSE
  /\ redraw_requested = FALSE
  /\ wake = FALSE
  /\ pressed_keys = {}
  /\ released_keys = {}
  /\ needs_render = TRUE
  /\ pause = FALSE
  /\ app_done = "NotDone"
  /\ app_call = NoCall
  /\ ticked = FALSE
  /\ down = {}
  /\ last_input = "event"
  /\ resize_pending = "off"

WorldInit ==
  /\ SchedIdle
  /\ WorldDefault
  /\ MarchIdle
  /\ IsWallIdle
  /\ GenIdle
  /\ RestIdle
  /\ DrawIdle

pan_left ==
  /\ player_heading - FRAC_PI_8 >= 0 - MaxPan * FRAC_PI_8
  /\ player_heading' = player_heading - FRAC_PI_8
  /\ world_op' = [call |-> "pan_left", panicked |-> FALSE]
  /\ UNCHANGED <<map, player_pos, player_fov>>
  /\ UNCHANGED <<sched_vars, march_vars, iw_vars, gen_vars, draw_vars,
                 hz_vars, proj_vars>>

pan_right ==
  /\ player_heading + FRAC_PI_8 <= MaxPan * FRAC_PI_8
  /\ player_heading' = player_heading + FRAC_PI_8
  /\ world_op' = [call |-> "pan_right", panicked |-> FALSE]
  /\ UNCHANGED <<map, player_pos, player_fov>>
  /\ UNCHANGED <<sched_vars, march_vars, iw_vars, gen_vars, draw_vars,
                 hz_vars, proj_vars>>

\* the position move_player tests
Candidate(heading) ==
  move_forward(player_pos, player_heading + HeadingOffset(heading), MoveStep)

\* a slip: the wall test is made on the current position
move_player_tests_current(heading) ==
  LET patate  == player_heading + HeadingOffset(heading)
      new_pos == move_forward(player_pos, patate, MoveStep)
      wall    == is_wall_outcome(map, player_pos)
  IN  /\ player_pos' = IF wall = "false" THEN new_pos ELSE player_pos
      /\ world_op' = [call |-> heading, panicked |-> wall = "panic"]
      /\ UNCHANGED <<map, player_heading, player_fov>>
      /\ UNCHANGED <<sched_vars, march_vars, iw_vars, gen_vars, draw_vars,
                 hz_vars, proj_vars>>

\* a slip: the heading of the move is kept as the player's heading
move_player_turns(heading) ==
  LET patate  == player_heading + HeadingOffset(heading)
      new_pos == move_forward(player_pos, patate, MoveStep)
      wall    == is_wall_outcome(map, new_pos)
  IN  /\ player_pos' = IF wall = "false" THEN new_pos ELSE player_pos
      /\ player_heading' = IF wall = "false" THEN player_heading ELSE patate
      /\ world_op' = [call |-> heading, panicked |-> wall = "panic"]
      /\ UNCHANGED <<map, player_fov>>
      /\ UNCHANGED <<sched_vars, march_vars, iw_vars, gen_vars, draw_vars,
                 hz_vars, proj_vars>>

\* World::move_player; is_wall aborting the process leaves the world as is
move_player(heading) ==
  LET patate  == player_heading + HeadingOffset(heading)
      new_pos == move_forward(player_pos, patate, MoveStep)
      wall    == is_wall_outcome(map, new_pos)
  IN  /\ player_pos' = IF wall = "false" THEN new_pos ELSE player_pos
      /\ world_op' = [call |-> heading, panicked |-> wall = "panic"]
      /\ UNCHANGED <<map, player_heading, player_fov>>
      /\ UNCHANGED <<sched_vars, march_vars, iw_vars, gen_vars, draw_vars,
                 hz_vars, proj_vars>>

WorldNext ==
  \/ pan_left
  \/ pan_right
  \/ \E heading \in Heading : move_player(heading)

WorldSpec == WorldInit /\ [][WorldNext]_vars

(***************************************************************************)
(* distance_to_wall, one loop iteration per step, from a non-wall player   *)
(* position on the closed default map and on a map without walls.          *)
(***************************************************************************)
OpenMap == filled_with(" ", 3, 3)

MarchMaps == {DefaultMap, OpenMap}

\* cell centres and cell corners
MarchPositions(m) ==
  {p \in {<<Cell(r) + dx, Cell(c) + dy>> :
             r \in 0..(m.cols - 1), c \in 0..(m.rows - 1),
             dx \in {0, Scale \div 2}, dy \in {0, Scale \div 2}} :
     is_wall_outcome(m, p) = "false"}

\* the sixteen directions the pan step reaches
MarchHeadings == {k * FRAC_PI_8 : k \in 0..15}

MarchInit ==
  /\ SchedIdle
  /\ IsWallIdle
  /\ GenIdle
  /\ RestIdle
  /\ DrawIdle
  /\ map \in MarchMaps
  /\ player_pos \in MarchPositions(map)
  /\ player_heading = 0
  /\ player_fov = degs_to_rads(70)
  /\ world_op = [call |-> "default", panicked |-> FALSE]
  /\ ray_heading \in MarchHeadings
  /\ distance = 0
  /\ coords = <<0, 0>>
  /\ march_pc = "idle"

\* entry of distance_to_wall: distance = 0.0 and the first point
MarchEnter ==
  /\ march_pc = "idle"
  /\ distance' = 0
  /\ coords' = move_forward(player_pos, ray_heading, 0)
  /\ march_pc' = "loop"
  /\ UNCHANGED ray_heading
  /\ UNCHANGED <<sched_vars, world_vars, iw_vars, gen_vars, draw_vars,
                 hz_vars, proj_vars>>

\* a march that advances two steps at a time
NextDistance_skips(d) == IF d < MaxDistance THEN d + 2 * MarchStep ELSE d

\* distance += 0.01 in f32: absorbed once the accumulator is large
NextDistance(d) == IF d < MaxDistance THEN d + MarchStep ELSE d

\* one evaluation of the loop condition, and the body when it holds
MarchLoop ==
  /\ march_pc = "loop"
  /\ LET wall == is_wall_outcome(map, coords) IN
       CASE wall = "true" ->
              /\ march_pc' = "returned"
              /\ UNCHANGED <<distance, coords>>
         [] wall = "panic" ->
              /\ march_pc' = "panicked"
              /\ UNCHANGED <<distance, coords>>
         [] wall = "false" ->
              /\ distance' = NextDistance(distance)
              /\ coords' = move_forward(player_pos, ray_heading, distance')
              /\ UNCHANGED march_pc
  /\ UNCHANGED ray_heading
  /\ UNCHANGED <<sched_vars, world_vars, iw_vars, gen_vars, draw_vars,
                 hz_vars, proj_vars>>

MarchNext == MarchEnter \/ MarchLoop

MarchSpec == MarchInit /\ [][MarchNext]_vars

\* the loop keeps running while its condition holds
MarchFairSpec == MarchSpec /\ WF_vars(MarchEnter) /\ WF_vars(MarchLoop)

(***************************************************************************)
(* is_wall on every grid of at most MaxDim rows and columns, at            *)
(* coordinates below, inside and beyond the grid.                          *)
(***************************************************************************)
MaxDim == 2

IsWallGrids ==
  UNION {{[rows |-> r, cols |-> c, cells |-> f] :
            f \in [(0..(r - 1)) \X (0..(c - 1)) -> {"X", " "}]} :
         r \in 1..MaxDim, c \in 1..MaxDim}

ProbeValues == {k * (Scale \div 2) : k \in (0 - 3)..(2 * MaxDim + 2)}

IsWallInit ==
  /\ SchedIdle
  /\ MarchIdle
  /\ map \in IsWallGrids
  /\ player_pos = <<0, 0>>
  /\ player_heading = 0
  /\ player_fov = 0
  /\ world_op = [call |-> "idle", panicked |-> FALSE]
  /\ probe \in ProbeValues \X ProbeValues
  /\ iw_result = "none"
  /\ GenIdle
  /\ RestIdle
  /\ DrawIdle

IsWallCall ==
  /\ iw_result = "none"
  /\ iw_result' = is_wall_outcome(map, probe)
  /\ UNCHANGED probe
  /\ UNCHANGED <<sched_vars, world_vars, march_vars, gen_vars, draw_vars,
                 hz_vars, proj_vars>>

IsWallNext == IsWallCall

IsWallSpec == IsWallInit /\ [][IsWallNext]_vars

(***************************************************************************)
(* Fairness of the event loop: the clock advances; a loop that was woken   *)
(* (an event was dispatched, or its WaitUntil deadline has passed) reaches *)
(* about_to_wait; a requested redraw is delivered; a loop told to exit     *)
(* exits.  User events are never forced to happen.                         *)
(***************************************************************************)
Due == wake \/ (control_flow.kind = "WaitUntil" /\ now >= control_flow.at)

DueAboutToWait == \E ret \in BOOLEAN, next_done \in DoneStatus :
                     Due /\ AboutToWait(ret, next_done)

DueRedraw == \E render_ok \in BOOLEAN :
                redraw_requested /\ RedrawRequested(render_ok)

FairSpec ==
  /\ Spec
  /\ WF_vars(AdvanceTime)
  /\ WF_vars(DueAboutToWait)
  /\ WF_vars(DueRedraw)
  /\ WF_vars(LoopExit)

(***************************************************************************)
(* generate_ray_angles.  An f32 is a record: a rational n/d in lowest      *)
(* terms ("num"), an infinity with its sign in n ("inf"), or NaN ("nan").  *)
(* The arithmetic is the IEEE one on these values, without rounding of the *)
(* finite results.  Angles are in half-degrees.                            *)
(***************************************************************************)
MaxRays == 6

MaxFovDegs == 90

RECURSIVE GCD(_, _)
GCD(a, b) == IF b = 0 THEN a ELSE GCD(b, a % b)

Abs(n) == IF n < 0 THEN 0 - n ELSE n

Sign(n) == IF n < 0 THEN 0 - 1 ELSE IF n = 0 THEN 0 ELSE 1

\* the f32 n/d, d > 0
Rat(n, d) ==
  LET g == GCD(Abs(n), d)
  IN  [k |-> "num", n |-> n \div g, d |-> d \div g]

Inf(sign) == [k |-> "inf", n |-> sign, d |-> 0]

NaN == [k |-> "nan", n |-> 0, d |-> 0]

\* a / b: x/0 is an infinity, 0/0 and inf/inf are NaN
f32_div(a, b) ==
  IF a.k = "nan" \/ b.k = "nan" THEN NaN
  ELSE IF a.k = "inf"
    THEN IF b.k = "inf" THEN NaN
         ELSE Inf(a.n * (IF b.n < 0 THEN 0 - 1 ELSE 1))
  ELSE IF b.k = "inf" THEN Rat(0, 1)
  ELSE IF b.n = 0
    THEN IF a.n = 0 THEN NaN ELSE Inf(Sign(a.n))
  ELSE Rat(a.n * b.d * Sign(b.n), a.d * Abs(b.n))

\* a * b: inf * 0 is NaN
f32_mul(a, b) ==
  IF a.k = "nan" \/ b.k = "nan" THEN NaN
  ELSE IF a.k = "inf" \/ b.k = "inf"
    THEN IF a.n = 0 \/ b.n = 0 THEN NaN
         ELSE Inf(Sign(a.n) * Sign(b.n))
  ELSE Rat(a.n * b.n, a.d * b.d)

\* a + b: inf + (-inf) is NaN
f32_add(a, b) ==
  IF a.k = "nan" \/ b.k = "nan" THEN NaN
  ELSE IF a.k = "inf"
    THEN IF b.k = "inf" /\ b.n # a.n THEN NaN ELSE a
  ELSE IF b.k = "inf" THEN b
  ELSE Rat(a.n * b.d + b.n * a.d, a.d * b.d)

\* `as f32` on a small usize
usize_as_f32(i) == Rat(i, 1)

\* a slip: the step divides by the number of rays
generate_ray_angles_step_by_count(quantity, fov) ==
  LET lower_half == f32_mul(f32_div(fov, Rat(2, 1)), Rat(0 - 1, 1))
      step       == f32_div(fov, usize_as_f32(quantity))
  IN  IF quantity = 0
        THEN {[status |-> "panic", angles |-> <<>>],
              [status |-> "ok", angles |-> <<>>]}
        ELSE {[status |-> "ok",
               angles |-> [i \in 1..quantity |->
                             f32_add(f32_mul(step, usize_as_f32(i - 1)),
                                     lower_half)]]}

\* generate_ray_angles(ray_quantity, fov): the set of its outcomes.
\* ray_quantity - 1 on a usize 0 panics in a build with overflow checks and
\* wraps in a build without, where (0..0) then yields nothing.
generate_ray_angles(quantity, fov) ==
  LET lower_half == f32_mul(f32_div(fov, Rat(2, 1)), Rat(0 - 1, 1))
      step       == f32_div(fov, usize_as_f32(quantity - 1))
  IN  IF quantity = 0
        THEN {[status |-> "panic", angles |-> <<>>],
              [status |-> "ok", angles |-> <<>>]}
        ELSE {[status |-> "ok",
               angles |-> [i \in 1..quantity |->
                             f32_add(f32_mul(step, usize_as_f32(i - 1)),
                                     lower_half)]]}

\* fields of view in whole degrees, as degs_to_rads gives them
FovValues == {degs_to_rads(g) : g \in 0..MaxFovDegs}

GenInit ==
  /\ SchedIdle
  /\ WorldIdle
  /\ MarchIdle
  /\ IsWallIdle
  /\ DrawIdle
  /\ RestIdle
  /\ ray_quantity \in 0..MaxRays
  /\ fov_arg \in FovValues
  /\ ray_angles = NoAngles

GenCall ==
  /\ ray_angles = NoAngles
  /\ ray_angles' \in generate_ray_angles(ray_quantity, usize_as_f32(fov_arg))
  /\ UNCHANGED <<ray_quantity, fov_arg>>
  /\ UNCHANGED <<sched_vars, world_vars, march_vars, iw_vars, draw_vars,
                 hz_vars, proj_vars>>

GenNext == GenCall

GenSpec == GenInit /\ [][GenNext]_vars

(***************************************************************************)
(* draw_centered_col on a buffer of width * height pixels.  A pixel is     *)
(* "clear" (never written), "void" (the blue background) or "wall" (the    *)
(* colour argument).                                                       *)
(***************************************************************************)
MaxWidth == 2

MaxHeight == 6

Max(a, b) == IF a >= b THEN a ELSE b

\* put_pixel1: idx = width * y + x
PixelIndex(w, x, y) == w * y + x

\* draw_centered_col(frame, width, height, x, col_height, color).
\* mid - col_height / 2 below zero aborts (overflow check, or the index of
\* the wrapped range); a write past the end of the frame aborts after the
\* writes before it.
draw_centered_col(f, w, h, x, ch) ==
  LET mid       == h \div 2
      up_bound  == mid - (ch \div 2)
      low_bound == mid + (ch \div 2)
      rows      == 0..(Max(low_bound, h) - 1)
      colour(y) == IF y >= up_bound /\ y < low_bound THEN "wall" ELSE "void"
      inside(y) == PixelIndex(w, x, y) \in DOMAIN f
      written   == {y \in rows : \A z \in 0..y : inside(z)}
  IN  IF up_bound < 0
        THEN [status |-> "panic", frame |-> f]
        ELSE [status |-> IF written = rows THEN "done" ELSE "panic",
              frame  |-> [i \in DOMAIN f |->
                            IF \E y \in written : PixelIndex(w, x, y) = i
                              THEN colour(CHOOSE y \in written :
                                            PixelIndex(w, x, y) = i)
                              ELSE f[i]]]

DrawInit ==
  /\ SchedIdle
  /\ WorldIdle
  /\ MarchIdle
  /\ IsWallIdle
  /\ GenIdle
  /\ RestIdle
  /\ width \in 1..MaxWidth
  /\ height \in 0..MaxHeight
  /\ frame = [i \in 0..(width * height - 1) |-> "clear"]
  /\ col_x \in 0..(width - 1)
  /\ col_height \in 0..height
  /\ draw_status = "none"

DrawCall ==
  /\ draw_status = "none"
  /\ LET out == draw_centered_col(frame, width, height, col_x, col_height) IN
       /\ frame' = out.frame
       /\ draw_status' = out.status
  /\ UNCHANGED <<width, height, col_x, col_height>>
  /\ UNCHANGED <<sched_vars, world_vars, march_vars, iw_vars, gen_vars,
                 hz_vars, proj_vars>>

DrawNext == DrawCall

DrawSpec == DrawInit /\ [][DrawNext]_vars

(***************************************************************************)
(* The projection of a redraw (main.rs, the branch taken when not paused): *)
(* distance_to_walls(width), one column height per distance, and the upper *)
(* bound draw_centered_col computes from it.                               *)
(***************************************************************************)
Min(a, b) == IF a <= b THEN a ELSE b

\* angle + self.player_heading: the angle to the nearest half-degree; an
\* angle that is not a number gives no number
ray_heading_of(angle, heading) ==
  IF angle.k = "num"
    THEN [k |-> "num", a |-> RoundDiv(angle.n, angle.d) + heading]
    ELSE [k |-> "nan", a |-> 0]

\* move_forward(self.player_pos, heading, distance) as is_wall reads it:
\* with a heading that is not a number both coordinates are NaN, which
\* `as usize` turns into 0
ray_coords(pos, h, d) ==
  IF h.k = "num" THEN move_forward(pos, h.a, d) ELSE <<0, 0>>

\* distances tried in one round of the search below
MarchChunk == 20

\* the loop of distance_to_wall from the distance `from` on: the first
\* distance at which is_wall does not answer false
RECURSIVE first_wall(_, _, _, _)
first_wall(m, pos, h, from) ==
  IF from > MaxDistance THEN [status |-> "unbounded", distance |-> from]
  ELSE LET hits == {d \in from..(from + MarchChunk - 1) :
                      is_wall_outcome(m, ray_coords(pos, h, d * MarchStep))
                        # "false"}
       IN  IF hits = {} THEN first_wall(m, pos, h, from + MarchChunk)
           ELSE LET d == CHOOSE x \in hits : \A y \in hits : x <= y
                IN  [status |->
                       IF is_wall_outcome(m, ray_coords(pos, h, d * MarchStep))
                            = "panic"
                         THEN "panic" ELSE "ok",
                     distance |-> d * MarchStep]

distance_to_wall(m, pos, h) == first_wall(m, pos, h, 0)

\* (self.height as f32 / distance) as usize, then the clamp to the height:
\* a quotient by 0.0 is infinite (NaN for a height of 0), the cast makes it
\* usize::MAX (0), and the clamp the height
clamped_col_height(h, d) ==
  IF d = 0 THEN h ELSE Min(h, (h * 100) \div d)

\* the coordinate of the marker pixels
MARKER == 10

\* the height from which the two marker pixels of a redraw, (10, 10) and
\* (width - 10, height - 10) with wrapping subtraction, lie in the buffer
\* for every width of at least 1
MarkedHeight == 2 * MARKER + 1

ProjWidths == 1..MaxWidth

ProjHeights == {MarkedHeight, MarkedHeight + 3}

ProjInit ==
  /\ SchedIdle
  /\ map = DefaultMap
  /\ player_pos \in MarchPositions(DefaultMap)
  /\ player_heading \in {k * FRAC_PI_8 : k \in (0 - MaxPan)..MaxPan}
  /\ player_fov = degs_to_rads(70)
  /\ world_op = [call |-> "default", panicked |-> FALSE]
  /\ MarchIdle
  /\ IsWallIdle
  /\ GenIdle
  /\ frame = <<>>
  /\ width \in ProjWidths
  /\ height \in ProjHeights
  /\ col_x = 0
  /\ col_height = 0
  /\ draw_status = "none"
  /\ tick_per_second = 0
  /\ projection = NoProjection

\* distance_to_walls(self.width).map(...).enumerate().for_each(...) up to
\* the call of draw_centered_col
ProjCall ==
  /\ projection = NoProjection
  /\ \E gen \in generate_ray_angles(width, usize_as_f32(player_fov)) :
       /\ gen.status = "ok"
       /\ projection' =
            [status |-> "done",
             columns |->
               [i \in 1..width |->
                  LET hit == distance_to_wall(map, player_pos,
                               ray_heading_of(gen.angles[i], player_heading))
                      ch  == clamped_col_height(height, hit.distance)
                  IN  [distance   |-> hit.distance,
                       hit        |-> hit.status,
                       col_height |-> ch,
                       up_bound   |-> (height \div 2) - (ch \div 2)]]]
  /\ UNCHANGED <<sched_vars, world_vars, march_vars, iw_vars, gen_vars,
                 draw_vars, hz_vars>>

ProjNext == ProjCall

ProjSpec == ProjInit /\ [][ProjNext]_vars

(***************************************************************************)
(* main.rs: the App of the binary, which owns a World and handles the      *)
(* window events itself.  Here pressed_keys, pause, width and height are   *)
(* the fields of App, exiting and redraw_requested the calls it makes on   *)
(* the event loop and the window; time plays no part.                      *)
(***************************************************************************)
\* enum MyKeys of main.rs
AppMyKeys == {"KeyA", "KeyZ", "KeyE", "KeyQ", "KeyS", "KeyD",
              "Up", "Down", "Left", "Right"}

\* the logical keys the events are drawn from
AppLogicalKeys == {"Up", "KeyA", "Escape", "Space", "Other"}

\* sizes a Resized event brings
AppSizes == {<<MaxWidth, MaxHeight>>}

\* the match in the loop over pressed_keys
key_command(key) ==
  CASE key \in {"Left", "KeyQ"}  -> "Left"
    [] key \in {"Right", "KeyD"} -> "Right"
    [] key \in {"Up", "KeyZ"}    -> "Forward"
    [] key \in {"Down", "KeyS"}  -> "Backward"
    [] key = "KeyA"              -> "pan_left"
    [] key = "KeyE"              -> "pan_right"

\* one call on the World, as a function of the pose: pan_left, pan_right or
\* move_player; nothing more happens once is_wall has aborted the process
apply_command(m, pose, command) ==
  IF pose.panicked THEN pose
  ELSE IF command = "pan_left"
    THEN [pose EXCEPT !.heading = @ - FRAC_PI_8]
  ELSE IF command = "pan_right"
    THEN [pose EXCEPT !.heading = @ + FRAC_PI_8]
  ELSE LET patate  == pose.heading + HeadingOffset(command)
           new_pos == move_forward(pose.pos, patate, MoveStep)
           wall    == is_wall_outcome(m, new_pos)
       IN  [pos      |-> IF wall = "false" THEN new_pos ELSE pose.pos,
            heading  |-> pose.heading,
            panicked |-> wall = "panic"]

\* for key in &self.pressed_keys { ... }, in the order the set is iterated
RECURSIVE apply_keys(_, _, _)
apply_keys(m, pose, keys) ==
  IF keys = <<>> THEN pose
  ELSE apply_keys(m, apply_command(m, pose, key_command(Head(keys))), Tail(keys))

\* the orders in which a HashSet may yield its elements
IterationOrders(S) ==
  {order \in [1..Cardinality(S) -> S] :
     \A i, j \in 1..Cardinality(S) : order[i] = order[j] => i = j}

\* App::default() and resumed(): the window exists, the loop runs
AppInit ==
  /\ loop = "running"
  /\ now = 0
  /\ last_frame = 0
  /\ tick = 1
  /\ always_tick = FALSE
  /\ control_flow = Wait
  /\ exiting = FALSE
  /\ redraw_requested = FALSE
  /\ wake = FALSE
  /\ pressed_keys = {}
  /\ released_keys = {}
  /\ needs_render = TRUE
  /\ pause = FALSE
  /\ app_done = "NotDone"
  /\ app_call = NoCall
  /\ ticked = FALSE
  /\ down = {}
  /\ last_input = "event"
  /\ resize_pending = "off"
  /\ WorldDefault
  /\ MarchIdle
  /\ IsWallIdle
  /\ GenIdle
  /\ RestIdle
  /\ frame = <<>>
  /\ width = 320
  /\ height = 240
  /\ col_x = 0
  /\ col_height = 0
  /\ draw_status = "none"

AppUnchanged ==
  UNCHANGED <<loop, last_frame, tick, always_tick, now, control_flow, wake,
              released_keys, needs_render, app_done, app_call, ticked, down,
              last_input, resize_pending, map, player_fov, march_vars,
                 iw_vars, gen_vars,
              hz_vars, proj_vars,
              frame, col_x, col_height, draw_status>>

\* WindowEvent::CloseRequested
AppCloseRequested ==
  /\ loop = "running"
  /\ exiting' = TRUE
  /\ AppUnchanged
  /\ UNCHANGED <<redraw_requested, pressed_keys, pause, player_pos,
                 player_heading, world_op, width, height>>

\* WindowEvent::Resized
AppResized(size) ==
  /\ loop = "running"
  /\ width' = size[1]
  /\ height' = size[2]
  /\ AppUnchanged
  /\ UNCHANGED <<exiting, redraw_requested, pressed_keys, pause, player_pos,
                 player_heading, world_op>>

\* WindowEvent::KeyboardInput.  event.repeat is not consulted.  The heading
\* is kept within MaxPan pan steps of zero.
AppKeyboardInput(key, state, repeat) ==
  /\ loop = "running"
  /\ LET held == IF key \in AppMyKeys
                   THEN IF state = "Pressed" THEN pressed_keys \cup {key}
                                             ELSE pressed_keys \ {key}
                   ELSE pressed_keys
     IN  \E order \in IterationOrders(held) :
           LET pose == apply_keys(map,
                                  [pos |-> player_pos,
                                   heading |-> player_heading,
                                   panicked |-> FALSE],
                                  order)
           IN  /\ pose.heading >= 0 - MaxPan * FRAC_PI_8
               /\ pose.heading <= MaxPan * FRAC_PI_8
               /\ pressed_keys' = held
               /\ player_pos' = pose.pos
               /\ player_heading' = pose.heading
               /\ world_op' = [call |-> "KeyboardInput",
                               panicked |-> pose.panicked]
  /\ exiting' = (exiting \/ (state = "Pressed" /\ key = "Escape"))
  /\ pause' = IF state = "Pressed" /\ key = "Space" THEN ~pause ELSE pause
  /\ redraw_requested' = TRUE
  /\ AppUnchanged
  /\ UNCHANGED <<width, height>>

\* frame.as_rgba_mut()[idx]: an index outside the buffer aborts
InBuffer(w, h, idx) == idx >= 0 /\ idx < w * h

\* put_pixel1(frame, width, 10, 10, red)
near_marker(w, h) ==
  IF InBuffer(w, h, PixelIndex(w, MARKER, MARKER)) THEN "ok" ELSE "panic"

\* put_pixel1(frame, width, self.width - 10, self.height - 10, red).  Below
\* 10 a subtraction aborts where overflow is checked and wraps where it is
\* not; the wrapped index is width * (height - 10) + width - 10 modulo
\* 2^64, inside the buffer only when that number is not negative.
far_marker(w, h) ==
  LET put == IF InBuffer(w, h, PixelIndex(w, w - MARKER, h - MARKER))
               THEN "ok" ELSE "panic"
  IN  IF w >= MARKER /\ h >= MARKER THEN {put} ELSE {"panic", put}

\* the factor from a position to the pixel of the paused view
PLAYER_ZOOM == 50

\* the paused view: the pixel of the player.  The pixels of pos_of_hits,
\* whose code is not among the sources, are not drawn here.
player_pixel(w, h, pos) ==
  IF InBuffer(w, h, PixelIndex(w, as_usize(pos[1] * PLAYER_ZOOM),
                                  as_usize(pos[2] * PLAYER_ZOOM)))
    THEN "done" ELSE "panic"

\* the projected view: one column per ray, drawn by draw_centered_col
columns_outcome(w, h, m, pos, heading, fov) ==
  {IF gen.status = "panic" THEN "panic"
   ELSE LET col(i) ==
              LET hit == distance_to_wall(m, pos,
                           ray_heading_of(gen.angles[i], heading))
              IN  IF hit.status = "panic" THEN "panic"
                  ELSE IF hit.status = "unbounded" THEN "hang"
                  ELSE draw_centered_col([j \in 0..(w * h - 1) |-> "clear"],
                                         w, h, i - 1,
                                         clamped_col_height(h, hit.distance)
                                        ).status
            bad == {i \in 1..w : col(i) # "done"}
        IN  IF bad = {} THEN "done"
            ELSE col(CHOOSE i \in bad : \A j \in bad : i <= j)
   : gen \in generate_ray_angles(w, usize_as_f32(fov))}

\* what a redraw may come to: "done", "panic" or "hang"
redraw_outcomes(w, h, paused, m, pos, heading, fov) ==
  IF near_marker(w, h) = "panic" THEN {"panic"}
  ELSE UNION {IF far = "panic" THEN {"panic"}
              ELSE IF paused THEN {player_pixel(w, h, pos)}
              ELSE columns_outcome(w, h, m, pos, heading, fov)
              : far \in far_marker(w, h)}

\* the widest window whose redraw is computed
MaxColumns == 11

\* WindowEvent::RedrawRequested, for windows of at most MaxColumns columns
AppRedrawRequested(render_ok) ==
  /\ loop = "running"
  /\ width <= MaxColumns
  /\ \E out \in redraw_outcomes(width, height, pause, map, player_pos,
                                player_heading, player_fov) :
       /\ draw_status' = out
       /\ loop' = IF out = "panic" THEN "aborted"
                  ELSE IF out = "hang" THEN "hung" ELSE loop
       /\ redraw_requested' = (out = "done" /\ render_ok /\ ~pause)
  /\ UNCHANGED <<last_frame, tick, always_tick, now, control_flow, wake,
                 released_keys, needs_render, app_done, app_call, ticked, down,
                 last_input, resize_pending, map, player_fov, march_vars,
                 iw_vars, gen_vars,
                 hz_vars, proj_vars, frame, col_x, col_height>>
  /\ UNCHANGED <<exiting, pressed_keys, pause, player_pos, player_heading,
                 world_op, width, height>>

\* the loop ends once exit() has been called
AppLoopExit ==
  /\ loop = "running"
  /\ exiting
  /\ loop' = "exited"
  /\ UNCHANGED <<last_frame, tick, always_tick, now, control_flow, wake,
                 released_keys, needs_render, app_done, app_call, ticked, down,
                 last_input, resize_pending, map, player_fov, march_vars,
                 iw_vars, gen_vars,
              hz_vars, proj_vars,
                 frame, col_x, col_height, draw_status>>
  /\ UNCHANGED <<exiting, redraw_requested, pressed_keys, pause, player_pos,
                 player_heading, world_op, width, height>>

AppNext ==
  \/ AppCloseRequested
  \/ \E size \in AppSizes : AppResized(size)
  \/ \E key \in AppLogicalKeys, state \in ElementState, repeat \in BOOLEAN :
       AppKeyboardInput(key, state, repeat)
  \/ AppLoopExit

AppSpec == AppInit /\ [][AppNext]_vars

(***************************************************************************)
(* main.rs: resizes and redraws of the App, for a player that the key      *)
(* events have brought to any free position of the default map, any        *)
(* heading within MaxPan pan steps and either pause state.                 *)
(***************************************************************************)
\* sizes a Resized event brings: smaller than the markers, narrow but high
\* enough for them, and just large enough for both
RedrawSizes == {<<MaxWidth, MaxHeight>>, <<MaxWidth, MarkedHeight>>,
                <<MARKER + 1, MARKER + 1>>}

RedrawInit ==
  /\ loop = "running"
  /\ now = 0
  /\ last_frame = 0
  /\ tick = 1
  /\ always_tick = FALSE
  /\ control_flow = Wait
  /\ exiting = FALSE
  /\ redraw_requested = FALSE
  /\ wake = FALSE
  /\ pressed_keys = {}
  /\ released_keys = {}
  /\ needs_render = TRUE
  /\ pause \in BOOLEAN
  /\ app_done = "NotDone"
  /\ app_call = NoCall
  /\ ticked = FALSE
  /\ down = {}
  /\ last_input = "event"
  /\ resize_pending = "off"
  /\ map = DefaultMap
  /\ player_pos \in MarchPositions(DefaultMap)
  /\ player_heading \in {k * FRAC_PI_8 : k \in (0 - MaxPan)..MaxPan}
  /\ player_fov = degs_to_rads(70)
  /\ world_op = [call |-> "default", panicked |-> FALSE]
  /\ MarchIdle
  /\ IsWallIdle
  /\ GenIdle
  /\ RestIdle
  /\ frame = <<>>
  /\ width = 320
  /\ height = 240
  /\ col_x = 0
  /\ col_height = 0
  /\ draw_status = "none"

RedrawNext ==
  \/ \E size \in RedrawSizes : AppResized(size)
  \/ \E render_ok \in BOOLEAN : AppRedrawRequested(render_ok)

RedrawSpec == RedrawInit /\ [][RedrawNext]_vars

(***************************************************************************)
(* hz_to_nanosec_period and WinitHandler::new.  The f64 arithmetic is done *)
(* on whole numbers held as sequences of 13-bit limbs, least significant   *)
(* first; a positive f64 is [m, e], the number m times 2^e, with m of at   *)
(* most 53 bits.  Every operation rounds to nearest, ties to even, as the  *)
(* hardware does.  In this specification tick is in nanoseconds.           *)
(***************************************************************************)
MaxHz == 144

\* significant bits of an f64
F64_MANTISSA == 53

\* the literal 1_000_000_000.0
NANOS_PER_SEC == 1000000000

LimbBits == 13

LIMB == 8192

RECURSIVE Pow2(_)
Pow2(p) == IF p = 0 THEN 1 ELSE 2 * Pow2(p - 1)

RECURSIVE ToLimbs(_)
ToLimbs(n) == IF n = 0 THEN <<>> ELSE <<n % LIMB>> \o ToLimbs(n \div LIMB)

RECURSIVE ToInt(_)
ToInt(x) == IF x = <<>> THEN 0 ELSE Head(x) + LIMB * ToInt(Tail(x))

\* 2^n
Pow2Limbs(n) == [i \in 1..(n \div LimbBits) |-> 0] \o <<Pow2(n % LimbBits)>>

\* without the zero limbs at the top
RECURSIVE Trim(_)
Trim(x) ==
  IF x = <<>> \/ x[Len(x)] # 0 THEN x ELSE Trim(SubSeq(x, 1, Len(x) - 1))

RECURSIVE IntBitLen(_)
IntBitLen(n) == IF n = 0 THEN 0 ELSE 1 + IntBitLen(n \div 2)

\* number of bits of a trimmed number
BitLen(x) ==
  IF x = <<>> THEN 0 ELSE (Len(x) - 1) * LimbBits + IntBitLen(x[Len(x)])

IsOdd(x) == x # <<>> /\ x[1] % 2 = 1

\* x + c for a small c
RECURSIVE AddSmall(_, _)
AddSmall(x, c) ==
  IF c = 0 THEN x
  ELSE IF x = <<>> THEN <<c>>
  ELSE <<(x[1] + c) % LIMB>> \o AddSmall(Tail(x), (x[1] + c) \div LIMB)

\* limbs i down to 1 of x divided by a small d, r carried in from above:
\* the quotient and the remainder
RECURSIVE DivSmall(_, _, _, _)
DivSmall(x, d, i, r) ==
  IF i = 0 THEN [q |-> <<>>, r |-> r]
  ELSE LET cur  == r * LIMB + x[i]
           rest == DivSmall(x, d, i - 1, cur % d)
       IN  [q |-> rest.q \o <<cur \div d>>, r |-> rest.r]

\* floor(x / 2^n), and whether anything was cut off
ShiftRight(x, n) ==
  LET a    == n \div LimbBits
      gone == \E i \in 1..a : i <= Len(x) /\ x[i] # 0
      y    == IF a >= Len(x) THEN <<>> ELSE SubSeq(x, a + 1, Len(x))
      d    == DivSmall(y, Pow2(n % LimbBits), Len(y), 0)
  IN  [v |-> Trim(d.q), sticky |-> gone \/ d.r # 0]

\* the sum of the products a[i] * b[k + 1 - i], i from lo on
RECURSIVE ColSum(_, _, _, _)
ColSum(a, b, k, i) ==
  IF i > Len(a) THEN 0
  ELSE (IF k + 1 - i \in 1..Len(b) THEN a[i] * b[k + 1 - i] ELSE 0)
         + ColSum(a, b, k, i + 1)

\* the limbs k and up of a * b
RECURSIVE MulCols(_, _, _, _)
MulCols(a, b, k, carry) ==
  IF k > Len(a) + Len(b) THEN <<>>
  ELSE <<(carry + ColSum(a, b, k, 1)) % LIMB>>
         \o MulCols(a, b, k + 1, (carry + ColSum(a, b, k, 1)) \div LIMB)

MulLimbs(a, b) == Trim(MulCols(a, b, 1, 0))

\* the f64 nearest to x * 2^e (+ something below the last bit when
\* sticky), ties to even
RoundF64(x, e, sticky) ==
  IF BitLen(x) <= F64_MANTISSA THEN [m |-> x, e |-> e]
  ELSE LET drop  == BitLen(x) - F64_MANTISSA
           s1    == ShiftRight(x, drop - 1)
           guard == IsOdd(s1.v)
           kept  == ShiftRight(s1.v, 1).v
           up    == guard /\ (sticky \/ s1.sticky \/ IsOdd(kept))
       IN  [m |-> IF up THEN AddSmall(kept, 1) ELSE kept, e |-> e + drop]

\* the least p with 2^p >= hz, from r = 1
RECURSIVE LeadExp(_, _)
LeadExp(r, hz) == IF r >= hz THEN 0 ELSE 1 + LeadExp(2 * r, hz)

\* 1.0 / hz as f64, hz >= 1: the 54-bit quotient 2^(p+53) / hz, rounded
f64_one_over(hz) ==
  LET p   == LeadExp(1, hz)
      num == Pow2Limbs(p + F64_MANTISSA)
      d   == DivSmall(num, hz, Len(num), 0)
  IN  RoundF64(Trim(d.q), 0 - p - F64_MANTISSA, d.r # 0)

\* x * n for an f64 x and a natural n that an f64 holds exactly
f64_mul_nat(x, n) == RoundF64(MulLimbs(x.m, ToLimbs(n)), x.e, FALSE)

\* a slip: the cast rounds to the nearest integer
f64_as_u64_rounds(x) ==
  ToInt(ShiftRight(AddSmall(ShiftRight(x.m, 0 - x.e - 1).v, 1), 1).v)

\* `as u64` on a positive f64 with a fraction: the part above the point
f64_as_u64(x) == ToInt(ShiftRight(x.m, 0 - x.e).v)

\* hz_to_nanosec_period: 1.0 / hz as f64 * 1_000_000_000.0, then as u64
hz_to_nanosec_period(hz) ==
  f64_as_u64(f64_mul_nat(f64_one_over(hz), NANOS_PER_SEC))

\* tick rates
HzValues == 1..MaxHz

\* before WinitHandler::new
HzInit ==
  /\ loop = "unbuilt"
  /\ now = 0
  /\ last_frame = 0
  /\ tick = 0
  /\ always_tick = FALSE
  /\ control_flow = Wait
  /\ exiting = FALSE
  /\ redraw_requested = FALSE
  /\ wake = FALSE
  /\ pressed_keys = {}
  /\ released_keys = {}
  /\ needs_render = TRUE
  /\ pause = FALSE
  /\ app_done = "NotDone"
  /\ app_call = NoCall
  /\ ticked = FALSE
  /\ down = {}
  /\ last_input = "event"
  /\ resize_pending = "off"
  /\ WorldIdle
  /\ MarchIdle
  /\ IsWallIdle
  /\ GenIdle
  /\ DrawIdle
  /\ tick_per_second \in HzValues
  /\ projection = NoProjection

\* WinitHandler::new(app, size, tick_per_second)
WinitHandlerNew ==
  /\ loop = "unbuilt"
  /\ loop' = "new"
  /\ last_frame' = now
  /\ tick' = hz_to_nanosec_period(tick_per_second)
  /\ always_tick' = FALSE
  /\ UNCHANGED <<now, control_flow, exiting, redraw_requested, wake,
                 pressed_keys, released_keys, needs_render, pause, app_done,
                 app_call, ticked, down, last_input,
                 resize_pending>>
  /\ UNCHANGED <<world_vars, march_vars, iw_vars, gen_vars, draw_vars,
                 hz_vars, proj_vars>>

HzNext == WinitHandlerNew

HzSpec == HzInit /\ [][HzNext]_vars

(***************************************************************************)
(* move_forward on its own: one call on a drawn position, heading and      *)
(* distance; the result is left in coords.                                 *)
(***************************************************************************)
MovePositions ==
  {<<x, y>> : x \in {0 - Scale, 0, Scale \div 2, 10 * Scale},
              y \in {0 - Scale, 0, Scale \div 2, 10 * Scale}}

\* 0.0, the step of move_player, and 1.0
MoveDistances == {0, MoveStep, 100}

MoveInit ==
  /\ SchedIdle
  /\ map = filled_with(" ", 0, 0)
  /\ player_pos \in MovePositions
  /\ player_heading = 0
  /\ player_fov = 0
  /\ world_op = [call |-> "idle", panicked |-> FALSE]
  /\ ray_heading \in MarchHeadings
  /\ distance \in MoveDistances
  /\ coords = <<0, 0>>
  /\ march_pc = "idle"
  /\ IsWallIdle
  /\ GenIdle
  /\ DrawIdle
  /\ RestIdle

MoveCall ==
  /\ march_pc = "idle"
  /\ coords' = move_forward(player_pos, ray_heading, distance)
  /\ march_pc' = "moved"
  /\ UNCHANGED <<ray_heading, distance>>
  /\ UNCHANGED <<sched_vars, world_vars, iw_vars, gen_vars, draw_vars,
                 hz_vars, proj_vars>>

MoveNext == MoveCall

MoveSpec == MoveInit /\ [][MoveNext]_vars

(***************************************************************************)
(*                              The claims                                 *)
(***************************************************************************)

\* K was pressed and then released, and no tick has drained it yet
PressedThenReleased(K) ==
  K \in pressed_keys /\ K \in released_keys /\ K \notin down

\* C1 as stated: when a recognized key K was pressed and then released
\* before a tick, that tick calls the app's on_tick with a set containing K,
\* and K is not in pressed_keys after the tick.
C1_AsStated ==
  [][\A K \in MyKeys :
       (ticked' /\ PressedThenReleased(K))
         => /\ app_call'.method = "on_tick"
            /\ K \in app_call'.keys
            /\ K \notin pressed_keys']_vars

\* C1 amended: when a recognized key K was pressed and then released before
\* a tick, K is not in pressed_keys after that tick; the tick calls the
\* app's on_tick, with a set containing K, exactly when the app's done() is
\* NotDone, and otherwise calls no method of the app; and a tick that starts
\* with K outside pressed_keys hands the app no set containing K.
C1_Amended ==
  [][\A K \in MyKeys :
       /\ (ticked' /\ PressedThenReleased(K))
            => /\ K \notin pressed_keys'
               /\ (app_done = "NotDone"
                     => app_call'.method = "on_tick" /\ K \in app_call'.keys)
               /\ (app_done # "NotDone" => app_call' = NoCall)
       /\ (ticked' /\ K \notin pressed_keys) => K \notin app_call'.keys]_vars

\* the first tick (no tick can come before one period, none twice within
\* two) handed the app a key pressed and released since the start, and
\* removed it
C1_Witness ==
  /\ ticked /\ now < 2 * tick
  /\ app_call.method = "on_tick"
  /\ "Up" \in app_call.keys
  /\ "Up" \notin pressed_keys
  /\ "Up" \notin down

\* C2: every tick leaves pressed_keys equal to its value before the tick
\* minus released_keys and leaves released_keys empty; the set handed to
\* the app is pressed_keys as it stood before the removal.
C2_Drain ==
  [][ticked'
       => /\ pressed_keys' = pressed_keys \ released_keys
          /\ released_keys' = {}
          /\ (app_call'.method = "on_tick" => app_call'.keys = pressed_keys)]_vars

\* a tick handed the app a key that it then removed, and the app goes on
C2_Witness ==
  /\ ticked
  /\ app_call.method = "on_tick"
  /\ app_call.keys # {}
  /\ pressed_keys = {}
  /\ released_keys = {}
  /\ app_done = "NotDone"

\* C3: from World::default(), under any sequence of move_player, pan_left
\* and pan_right calls, the player's position is never a wall.
C3_NeverInWall == is_wall_outcome(map, player_pos) = "false"

\* the player stands away from the start, facing a wall that has just
\* rejected a move
C3_Witness ==
  /\ world_op.call \in Heading
  /\ player_pos # <<Cell(2), Cell(2)>>
  /\ is_wall(map, Candidate(world_op.call))

\* C4: the tick runs only when at least one tick period has elapsed since
\* last_frame and sets last_frame to the current time, so a tick comes at
\* least one period after the tick before it.
C4_Cadence ==
  [][ticked'
       => /\ now - last_frame >= tick
          /\ last_frame' = now
          /\ last_frame' - last_frame >= tick]_vars

\* a tick at the very deadline that was scheduled after an earlier tick
\* (a deadline later than one period was computed from a last_frame set by
\* a tick)
C4_Witness ==
  /\ ticked
  /\ control_flow.kind = "WaitUntil"
  /\ control_flow.at > tick
  /\ last_frame = control_flow.at

\* an idle notification with less than one tick period elapsed
IdleStep == \E ret \in BOOLEAN, next_done \in DoneStatus :
               AboutToWait(ret, next_done) /\ now - last_frame < tick

\* what such a notification is said to do
IdleEffect ==
  /\ ~ticked'
  /\ app_call' = NoCall
  /\ redraw_requested' = redraw_requested
  /\ last_frame' = last_frame
  /\ control_flow' = IF ~always_tick /\ pressed_keys = {}
                       THEN Wait
                       ELSE WaitUntil(now + (tick - (now - last_frame)))

\* C5 as stated: an idle notification with less than one tick period
\* elapsed makes no tick and no redraw request and sets the control flow to
\* Wait when always_tick is false and pressed_keys is empty, and to
\* WaitUntil(now + (tick - elapsed)) otherwise.
C5_AsStated == [][IdleStep => IdleEffect]_vars

\* C5 amended: the same, for an idle notification at which the app's
\* done() is not Exit; when it is Exit the notification makes no tick and
\* no redraw request either, and leaves the control flow as it was.
C5_Amended ==
  [][IdleStep
       => /\ app_done # "Exit" => IdleEffect
          /\ app_done = "Exit"
               => /\ ~ticked' /\ app_call' = NoCall
                  /\ redraw_requested' = redraw_requested
                  /\ control_flow' = control_flow]_vars

\* with always_tick set and no key pressed, an idle notification half-way
\* through the period has scheduled the wake-up for the end of the period
C5_Witness ==
  /\ loop = "running" /\ ~wake /\ ~ticked
  /\ always_tick /\ pressed_keys = {}
  /\ app_done = "NotDone"
  /\ tick = 2 /\ now - last_frame = 1
  /\ control_flow = WaitUntil(now + 1)

\* the situation in which ticks are said to go on: the loop runs, the app
\* is not done, and always_tick is set or some recognized key is held down
KeepsTicking ==
  /\ loop = "running" /\ ~exiting
  /\ app_done = "NotDone"
  /\ (always_tick \/ down # {})

\* C6: while always_tick is set or a recognized key is held down, and the
\* app is not done, another tick eventually occurs, with no further user
\* event (as long as the clock can still reach the end of the period).
C6_TicksGoOn ==
  (~ticked /\ last_frame + tick <= MaxTime /\ KeepsTicking)
     ~> (ticked \/ ~KeepsTicking)

\* C7: once the app's done() returns Remain, no step calls the app's draw
\* or the app's on_tick.
C7_RemainIsQuiet == [][app_done = "Remain" => app_call' = NoCall]_vars

\* C8: move_player leaves the heading, the field of view and the map as
\* they are, and leaves the position as it is, without failing, when the
\* candidate position is a wall.
C8_RejectedMove ==
  [][\A heading \in Heading :
       world_op'.call = heading
         => /\ player_heading' = player_heading
            /\ player_fov' = player_fov
            /\ map' = map
            /\ ~world_op'.panicked
            /\ is_wall(map, Candidate(heading)) => player_pos' = player_pos]_vars

\* a Backward move has just been rejected by the wall behind a turned player
C8_Witness ==
  /\ world_op.call = "Backward"
  /\ player_heading # 0
  /\ is_wall(map, Candidate("Backward"))

\* the truncated indices (row, column) lie outside the grid, or the cell
\* they index is a wall
OutsideOrWall(m, c) ==
  LET rc == <<as_usize(c[1]), as_usize(c[2])>>
  IN  \/ rc[1] >= m.rows
      \/ rc[2] >= m.cols
      \/ m.cells[rc] = "X"

\* C9: on every grid and at every coordinate is_wall returns, and returns
\* true exactly when the truncated cell indices lie outside the grid or the
\* indexed cell is a wall.
C9_IsWallTotal ==
  iw_result # "none"
    => /\ iw_result # "panic"
       /\ (iw_result = "true") <=> OutsideOrWall(map, probe)

\* C10: distance_to_wall terminates from every non-wall position, for
\* every heading, on every map.
C10_MarchTerminates == <>(march_pc \in {"returned", "panicked"})

(***************************************************************************)
(* C11: when distance_to_wall returns, the returned distance is the first  *)
(* multiple of the march step whose point along the ray is a wall: that    *)
(* point is a wall and no point sampled before it is; from the centre      *)
(* (2,2) of the default map with heading 0 the result is 2.0 within one    *)
(* march step.                                                             *)
(***************************************************************************)
Sampled(d) == move_forward(player_pos, ray_heading, d)

C11_FirstWall ==
  march_pc = "returned" =>
    /\ distance % MarchStep = 0
    /\ coords = Sampled(distance)
    /\ is_wall(map, Sampled(distance))
    /\ \A k \in 0..((distance \div MarchStep) - 1) :
         ~is_wall(map, Sampled(k * MarchStep))
    /\ (map = DefaultMap /\ player_pos = <<Cell(2), Cell(2)>> /\ ray_heading = 0)
         => /\ distance >= 200 - MarchStep
            /\ distance <= 200 + MarchStep

C11_Witness ==
  /\ march_pc = "returned"
  /\ map = DefaultMap
  /\ player_pos = <<Cell(2), Cell(2)>>
  /\ ray_heading = 0
  /\ distance > 0
  /\ as_usize(coords[1]) = 4

(***************************************************************************)
(* C12, as stated: pressed_keys and released_keys are disjoint in every    *)
(* reachable state.                                                        *)
(***************************************************************************)
C12_AsStated == pressed_keys \cap released_keys = {}

(***************************************************************************)
(* C12, amended: the two sets are disjoint in every state that follows a   *)
(* tick with no keyboard event since: released_keys is then empty.         *)
(***************************************************************************)
C12_Amended ==
  last_input \in {"tick", "ticks"} => /\ pressed_keys \cap released_keys = {}
                                      /\ released_keys = {}

C12_Witness ==
  /\ last_input = "tick"
  /\ ticked
  /\ pressed_keys = {"Up"}
  /\ released_keys = {}

(***************************************************************************)
(* C13, as stated: a tick that follows a tick with no keyboard event in    *)
(* between hands the app an empty set.                                     *)
(***************************************************************************)
C13_AsStated ==
  [][(last_input \in {"tick", "ticks"} /\ ticked') => app_call'.keys = {}]_vars

(***************************************************************************)
(* C13, amended: between two ticks with no keyboard event in between the   *)
(* two sets do not change; the second tick finds released_keys empty,      *)
(* removes no key, and hands the app (when it calls it) exactly the keys   *)
(* the first tick left in pressed_keys.                                    *)
(***************************************************************************)
C13_Amended ==
  [][/\ (last_input \in {"tick", "ticks"} /\ last_input' = last_input)
        => UNCHANGED <<pressed_keys, released_keys>>
     /\ (last_input \in {"tick", "ticks"} /\ ticked')
        => /\ released_keys = {}
           /\ UNCHANGED <<pressed_keys, released_keys>>
           /\ app_call'.method = "on_tick" => app_call'.keys = pressed_keys
    ]_vars

C13_Witness ==
  /\ last_input = "ticks"
  /\ ticked
  /\ app_call = [method |-> "on_tick", keys |-> {"Up"}]
  /\ pressed_keys = {"Up"}

(***************************************************************************)
(* C14: a key-down event for a key already in pressed_keys changes neither *)
(* pressed_keys nor released_keys, and neither does any keyboard event     *)
(* flagged as auto-repeat: a key held down is in the set of each tick as   *)
(* one element whatever the number of repeat events.                       *)
(***************************************************************************)
C14_HeldAndRepeat ==
  [][/\ \A key \in pressed_keys :
          KeyboardInput(key, "Pressed", FALSE)
            => UNCHANGED <<pressed_keys, released_keys>>
     /\ (/\ last_input' = "repeat"
         /\ \E key \in LogicalKeys, state \in ElementState :
              KeyboardInput(key, state, TRUE))
          => UNCHANGED <<pressed_keys, released_keys>>
    ]_vars

C14_Witness ==
  /\ last_input = "repeat"
  /\ pressed_keys = {"Up"}
  /\ released_keys = {}
  /\ down = {"Up"}

(***************************************************************************)
(* C15: an idle notification at which done() answers Exit requests the     *)
(* exit of the loop and does nothing else: no tick, no call of the app, no *)
(* change of the key sets, of last_frame or of the pending redraw request. *)
(***************************************************************************)
C15_ExitOnly ==
  [][(/\ app_done = "Exit"
      /\ \E ret \in BOOLEAN, next_done \in DoneStatus : AboutToWait(ret, next_done))
       => /\ exiting'
          /\ ~ticked'
          /\ app_call' = NoCall
          /\ UNCHANGED <<pressed_keys, released_keys, last_frame,
                         redraw_requested, needs_render, control_flow>>
    ]_vars

\* the idle notification came last, was no tick, and a tick was due
C15_Witness ==
  /\ loop = "running"
  /\ app_done = "Exit"
  /\ exiting
  /\ ~wake
  /\ ~redraw_requested
  /\ now = last_frame + tick
  /\ pressed_keys # {}
  /\ released_keys # {}

(***************************************************************************)
(* C19: a redraw whose presentation fails does not request the exit of the *)
(* loop and changes none of last_frame, tick, pressed_keys, released_keys  *)
(* and needs_render (nor anything else about_to_wait reads), so the idle   *)
(* notifications that follow tick as they would have.                      *)
(***************************************************************************)
C19_RenderError ==
  [][(RedrawRequested(FALSE) /\ needs_render)
       => /\ app_call'.method = "draw"
          /\ UNCHANGED <<loop, exiting, last_frame, tick, pressed_keys,
                         released_keys, needs_render, app_done, always_tick,
                         now, control_flow>>
    ]_vars

\* the app has drawn and the frame is still owed
C19_Witness ==
  /\ app_call.method = "draw"
  /\ needs_render
  /\ ~exiting
  /\ loop = "running"
  /\ pressed_keys # {}

(***************************************************************************)
(* C16: for n > 1 rays and a field of view f, generate_ray_angles yields n *)
(* angles, the first -f/2, the last +f/2, consecutive ones f/(n-1) apart,  *)
(* in increasing order (strictly when f > 0).                              *)
(***************************************************************************)
f32_sub(a, b) == f32_add(a, f32_mul(b, Rat(0 - 1, 1)))

f32_lt(a, b) == a.k = "num" /\ b.k = "num" /\ a.n * b.d < b.n * a.d

C16_EvenSpread ==
  (ray_angles # NoAngles /\ ray_quantity > 1) =>
    LET a == ray_angles.angles
        n == ray_quantity
    IN  /\ ray_angles.status = "ok"
        /\ Len(a) = n
        /\ a[1] = Rat(0 - fov_arg, 2)
        /\ a[n] = Rat(fov_arg, 2)
        /\ \A i \in 1..(n - 1) :
             /\ f32_sub(a[i + 1], a[i]) = Rat(fov_arg, n - 1)
             /\ fov_arg > 0 => f32_lt(a[i], a[i + 1])
             /\ fov_arg = 0 => a[i] = a[i + 1]

C16_Witness ==
  /\ ray_angles.status = "ok"
  /\ ray_quantity = 4
  /\ fov_arg = degs_to_rads(70)
  /\ ray_angles.angles = <<Rat(0 - 70, 1), Rat(0 - 70, 3), Rat(70, 3), Rat(70, 1)>>

(***************************************************************************)
(* C17: generate_ray_angles(1, f) yields one angle, and that angle is 0.   *)
(***************************************************************************)
C17_SingleRay ==
  (ray_angles # NoAngles /\ ray_quantity = 1) =>
    /\ ray_angles.status = "ok"
    /\ Len(ray_angles.angles) = 1
    /\ ray_angles.angles[1] = Rat(0, 1)

(***************************************************************************)
(* C18: draw_centered_col with col_height = height leaves every row of     *)
(* column x in the wall colour, and with col_height = 0 leaves every row   *)
(* of column x in the void colour, whatever the height.                    *)
(***************************************************************************)
ColumnIs(c) ==
  \A y \in 0..(height - 1) : frame[PixelIndex(width, col_x, y)] = c

C18_FullAndEmpty ==
  draw_status # "none" =>
    /\ col_height = height => (draw_status = "done" /\ ColumnIs("wall"))
    /\ col_height = 0 => (draw_status = "done" /\ ColumnIs("void"))

(***************************************************************************)
(* C20: the position and the heading of the player change only in a step   *)
(* that runs a tick; a keyboard event (press, release, auto-repeat,        *)
(* unrecognized key) changes neither by itself.                            *)
(***************************************************************************)
C20_PoseOnlyOnTick ==
  [][<<player_pos, player_heading>>' # <<player_pos, player_heading>>
       => ticked']_vars

(***************************************************************************)
(* C21: the tick period WinitHandler::new stores is hz_to_nanosec_period   *)
(* of its tick rate, which is floor(1_000_000_000 / hz): 16_666_666 for 60 *)
(* and 1_000_000_000 for 1.                                                *)
(***************************************************************************)
C21_Period ==
  loop = "new" =>
    /\ tick = NANOS_PER_SEC \div tick_per_second
    /\ tick_per_second = 60 => tick = 16666666
    /\ tick_per_second = 1 => tick = 1000000000

C21_Witness ==
  /\ loop = "new"
  /\ tick_per_second = 60
  /\ tick = 16666666

\* C22: move_forward displaces the position by the given distance along the
\* heading: with distance 0 the result is the position itself, from (0,0)
\* with distance 1 the result is (1,0), (-1,0), (0,1), (0,-1) for the
\* headings 0, pi, pi/2, 3*pi/2 to within 0.001, and for every heading the
\* length of the displacement is the distance, to within the grid of the
\* positions (two hundredths of a position unit each way).
C22_Displacement ==
  march_pc = "moved" =>
    LET dx  == coords[1] - player_pos[1]
        dy  == coords[2] - player_pos[2]
        len == distance * Scale
        Near(p, q) == /\ Abs(p[1] - q[1]) * 1000 <= Scale
                      /\ Abs(p[2] - q[2]) * 1000 <= Scale
    IN  /\ distance = 0 => coords = player_pos
        /\ (player_pos = <<0, 0>> /\ distance = 100) =>
             /\ ray_heading = 0 => Near(coords, <<Scale, 0>>)
             /\ ray_heading = PI => Near(coords, <<0 - Scale, 0>>)
             /\ ray_heading = FRAC_PI_2 => Near(coords, <<0, Scale>>)
             /\ ray_heading = 3 * FRAC_PI_2 => Near(coords, <<0, 0 - Scale>>)
        /\ 10000 * (dx * dx + dy * dy) <= (len + 200) * (len + 200)
        /\ len >= 200 =>
             10000 * (dx * dx + dy * dy) >= (len - 200) * (len - 200)

C22_Witness ==
  /\ march_pc = "moved"
  /\ player_pos = <<0, 0>>
  /\ distance = 100
  /\ ray_heading = 3 * FRAC_PI_2
  /\ coords = <<0, 0 - Scale>>

\* C23: the pose after a keyboard event is the prior pose with the command
\* of every held key applied, whatever the order in which the set of held
\* keys is iterated: every order gives the pose the event has left.
C23_OrderIndependent ==
  [][(\E key \in AppLogicalKeys, state \in ElementState :
        AppKeyboardInput(key, state, FALSE))
       => \A order \in IterationOrders(pressed_keys') :
            apply_keys(map,
                       [pos |-> player_pos, heading |-> player_heading,
                        panicked |-> FALSE],
                       order)
              = [pos |-> player_pos', heading |-> player_heading',
                 panicked |-> world_op'.panicked]]_vars

\* C24: in a projection, for every pose and every column, the distance to
\* the wall is at least one march step (so the height is never divided by
\* zero), the column height handed to draw_centered_col is at most the
\* screen height, and mid - col_height / 2 is not negative.
C24_PositiveDistance ==
  projection.status = "done" =>
    \A i \in 1..Len(projection.columns) :
      /\ projection.columns[i].distance >= MarchStep
      /\ projection.columns[i].col_height <= height
      /\ projection.columns[i].up_bound >= 0

\* C25: whatever the size a resize has brought, the pose and the pause
\* state, a redraw writes only pixels inside the width * height buffer and
\* subtracts nothing below zero: no redraw aborts the process.
C25_RedrawNeverAborts == draw_status # "panic" /\ loop # "aborted"

\* C26: after every tick pressed_keys is the set of the recognized keys
\* whose latest key event that is not a repeat is a press, whatever the
\* key events and ticks before it.
C26_HeldAfterTick == [][ticked' => pressed_keys' = down']_vars

\* C27: once a resize has set needs_render it stays set until a redraw has
\* called the app's draw and presented the frame: no tick in between
\* clears it.
C27_ResizeKeepsRender == resize_pending = "yes" => needs_render

====
